---- MODULE Spec2Model ----
(***************************************************************************)
(* Model of ImageProcessingService (src/src/app.service.ts).               *)
(*                                                                         *)
(* The source file holds two revisions of the service:                     *)
(*   revision 1 = lines 1..226   (Otsu per neighbourhood, gradient         *)
(*                                heat map, no normalisation),             *)
(*   revision 2 = lines 227..403 (squareMatrix normalisation, no Otsu,     *)
(*                                stubbed generateHeatmap).                *)
(* A service instance is the record `this`: its revision and its readonly  *)
(* fields.  Operators shared by both revisions are modelled once; where    *)
(* the revisions differ the operator takes the instance and branches on    *)
(* this.rev.                                                               *)
(*                                                                         *)
(* JavaScript arrays are 0-based, TLA+ sequences 1-based: element k of an  *)
(* array is element k+1 of the sequence that models it.                    *)
(***************************************************************************)
EXTENDS Integers, Sequences, FiniteSets, TLC

(***************************************************************************)
(* Bounds of the model.                                                    *)
(***************************************************************************)
\* longest flat pixel buffer handed to toPixelMatrix
MaxLen == 5
\* largest width handed to toPixelMatrix
MaxWidth == 3
\* largest height and width of a grid handed to squareMatrix
MaxDim == 3
\* largest height and width of a grid neighbourhoods are extracted from
MaxSide == 6
\* largest neighbourhood side: of a call of getNeighborhood, of a service
MaxN == 5
\* largest height and width of an uploaded image
MaxImage == 2
\* largest scaling factor of a service instance (the smallest is 2)
MaxScale == 3
\* largest minimum box size of a service instance
MaxMinBox == 2
\* STANDARDIZED_IMAGE_SIZE of the model (512 in the source, line 241)
STANDARDIZED_IMAGE_SIZE == 2
\* field values are multiples of 1/Steps; a power of two, so that every
\* product and difference getColor forms is exact in a double
Steps == 8

\* the invocations of uploadFile on one service instance
MaxCalls == 2

\* new Array(256): the histogram bins / candidate thresholds of Otsu
HistogramSize == 256
\* the foreground value of a binarized cell
Foreground == 255
\* bytes of the heat map raster hold values modulo 256
ByteRange == 256

Min(a, b) == IF a < b THEN a ELSE b

\* new Array(n).fill(0); new Array of a negative length throws RangeError,
\* which no caller below reaches for a rectangular matrix
Zeros(n) == [k \in 1..n |-> 0]

\* Array.prototype.slice(from, to) on a sequence (0-based, end exclusive,
\* both clipped to the length)
Slice(s, from, to) == SubSeq(s, Min(from, Len(s)) + 1, Min(to, Len(s)))

(***************************************************************************)
(* Grid Builder                                                            *)
(***************************************************************************)
RECURSIVE toPixelMatrixLoop(_, _, _, _)
toPixelMatrixLoop(pixelArray, width, startIndex, matrix) ==
    IF Len(pixelArray) > startIndex
    THEN toPixelMatrixLoop(pixelArray, width, startIndex + width,
             Append(matrix, Slice(pixelArray, startIndex, startIndex + width)))
    ELSE matrix

\* width >= 1 (with width = 0 the loop of the source never ends)
toPixelMatrix(pixelArray, width) == toPixelMatrixLoop(pixelArray, width, 0, <<>>)

(***************************************************************************)
(* Grid Normalizer.  Rows are JavaScript objects: a matrix is a sequence   *)
(* of row addresses into a heap (a sequence of rows), so that sharing of   *)
(* rows between the source and the result (Array.prototype.slice copies    *)
(* the addresses, not the rows) is part of the model.                      *)
(***************************************************************************)
\* a grid of values placed in a fresh heap, row r at address r
Store(grid) == [heap |-> grid, matrix |-> [r \in 1..Len(grid) |-> r]]

\* the grid of values a matrix of addresses denotes
Deref(heap, matrix) == [r \in 1..Len(matrix) |-> heap[matrix[r]]]

\* matrix.map(row => ..): a new row object per row; `rows` holds the new
\* rows in order
MapRows(heap, matrix, rows) ==
    [heap   |-> heap \o rows,
     matrix |-> [r \in 1..Len(matrix) |-> Len(heap) + r]]

\* row => [...row]
CopiedRows(heap, matrix) ==
    [r \in 1..Len(matrix) |-> heap[matrix[r]]]

RECURSIVE PushZeroRows(_, _, _, _)
PushZeroRows(heap, matrixClone, rowLength, neededRowsCount) ==
    IF neededRowsCount > 0
    THEN PushZeroRows(Append(heap, Zeros(rowLength)),
                      Append(matrixClone, Len(heap) + 1),
                      rowLength, neededRowsCount - 1)
    ELSE [heap |-> heap, matrix |-> matrixClone]

fillTheRowsOffByOne(heap, pixelMatrix) ==
    LET rowLength == Len(heap[pixelMatrix[1]])
        currentRowsCount == Len(pixelMatrix)
        clone == MapRows(heap, pixelMatrix, CopiedRows(heap, pixelMatrix))
    IN  PushZeroRows(clone.heap, clone.matrix, rowLength,
                     STANDARDIZED_IMAGE_SIZE - currentRowsCount - 1)

fillTheRows(heap, pixelMatrix) ==
    LET rowLength == Len(heap[pixelMatrix[1]])
        currentRowsCount == Len(pixelMatrix)
        clone == MapRows(heap, pixelMatrix, CopiedRows(heap, pixelMatrix))
    IN  PushZeroRows(clone.heap, clone.matrix, rowLength,
                     STANDARDIZED_IMAGE_SIZE - currentRowsCount)

TruncateRow(row) == Slice(row, 0, STANDARDIZED_IMAGE_SIZE)

squareMatrix(heap, pixelMatrix) ==
    LET first == MapRows(heap, pixelMatrix, CopiedRows(heap, pixelMatrix))
        byHeight ==
            IF Len(pixelMatrix) > STANDARDIZED_IMAGE_SIZE
            THEN [heap   |-> first.heap,
                  matrix |-> Slice(pixelMatrix, 0, STANDARDIZED_IMAGE_SIZE)]
            ELSE fillTheRows(first.heap, pixelMatrix)
        rowLength == Len(heap[pixelMatrix[1]])
        missingRowLength == STANDARDIZED_IMAGE_SIZE - rowLength
        PadRow(row) == row \o Zeros(missingRowLength)
        rows == Deref(byHeight.heap, byHeight.matrix)
    IN  IF rowLength > STANDARDIZED_IMAGE_SIZE
        THEN MapRows(byHeight.heap, byHeight.matrix,
                     [r \in 1..Len(rows) |-> TruncateRow(rows[r])])
        ELSE MapRows(byHeight.heap, byHeight.matrix,
                     [r \in 1..Len(rows) |-> PadRow(rows[r])])

\* squareMatrix on a grid of values, as uploadFile uses it
squareGrid(grid) ==
    LET s == Store(grid)
        r == squareMatrix(s.heap, s.matrix)
    IN  Deref(r.heap, r.matrix)

(***************************************************************************)
(* Neighborhood Extractor                                                  *)
(***************************************************************************)
\* the indices one loop of getNeighborhood visits around the centre c:
\* c - halfSize .. c + halfSize - 1 in revision 2 (lines 372, 374),
\* c - halfSize .. c + halfSize     in revision 1 (lines 195, 197)
WindowFromCentre(rev, c, neighborhoodSize) ==
    [k \in 1..neighborhoodSize |-> c + k - 1]

Window(rev, c, neighborhoodSize) ==
    LET halfSize == neighborhoodSize \div 2
        first == c - halfSize
        last == IF rev = 1 THEN c + halfSize ELSE c + halfSize - 1
    IN  [k \in 1..(last - first + 1) |-> first + k - 1]

\* the test of lines 198 and 375
OutOfBounds(imageMatrix, i, j) ==
    i < 0 \/ j < 0 \/ i >= Len(imageMatrix) \/ j >= Len(imageMatrix[1])

getNeighborhood(rev, imageMatrix, x, y, neighborhoodSize) ==
    LET rows == Window(rev, x, neighborhoodSize)
        cols == Window(rev, y, neighborhoodSize)
    IN  [r \in 1..Len(rows) |->
            [c \in 1..Len(cols) |->
                IF OutOfBounds(imageMatrix, rows[r], cols[c])
                THEN 0
                ELSE imageMatrix[rows[r] + 1][cols[c] + 1]]]

\* the number of cells of the neighbourhood around (x, y) that take the
\* row.push(0) branch of lines 199 and 376
PaddedCells(rev, imageMatrix, x, y, neighborhoodSize) ==
    LET rows == Window(rev, x, neighborhoodSize)
        cols == Window(rev, y, neighborhoodSize)
    IN  Cardinality({rc \in (1..Len(rows)) \X (1..Len(cols)) :
                        OutOfBounds(imageMatrix, rows[rc[1]], cols[rc[2]])})

(***************************************************************************)
(* Numbers.  A JavaScript number is an IEEE 754 binary64 value, and the    *)
(* arithmetic of binarizeWithOtsu rounds every result to the nearest such  *)
(* value, ties to even.  A number is the record                            *)
(*   [kind, sign, exp, hi, lo]                                             *)
(* with kind "nan", "inf", "zero" or "finite" and sign 0 (+) or 1 (-); a   *)
(* finite number is (hi * 2^28 + lo) * 2^exp with a significand of exactly *)
(* 53 bits (2^24 <= hi < 2^25, lo < 2^28).  The exponent is not limited:   *)
(* on byte values and fewer than 2^31 pixels no result of the method       *)
(* leaves the exponent range of a double or becomes subnormal.             *)
(* Wider naturals are <<w0, w1, w2, w3>>, the words of 28 bits of          *)
(* w0 + w1 * 2^28 + w2 * 2^56 + w3 * 2^84.                                 *)
(***************************************************************************)
Word == 2^28

HalfWord == 2^14

\* the bits of a significand
Precision == 53

NotANumber == [kind |-> "nan", sign |-> 0, exp |-> 0, hi |-> 0, lo |-> 0]

Infinity(sign) == [kind |-> "inf", sign |-> sign, exp |-> 0, hi |-> 0, lo |-> 0]

Zero(sign) == [kind |-> "zero", sign |-> sign, exp |-> 0, hi |-> 0, lo |-> 0]

Finite(sign, exp, hi, lo) ==
    [kind |-> "finite", sign |-> sign, exp |-> exp, hi |-> hi, lo |-> lo]

\* the words of the natural whose columns (each below 2^31 in size, possibly
\* negative) are c
BigNorm(c) ==
    LET v1 == c[1]
        v2 == c[2] + (v1 \div Word)
        v3 == c[3] + (v2 \div Word)
        v4 == c[4] + (v3 \div Word)
    IN  <<v1 % Word, v2 % Word, v3 % Word, v4 % Word>>

BigAdd(a, b) == BigNorm(<<a[1] + b[1], a[2] + b[2], a[3] + b[3], a[4] + b[4]>>)

\* a - b for a >= b
BigSub(a, b) == BigNorm(<<a[1] - b[1], a[2] - b[2], a[3] - b[3], a[4] - b[4]>>)

BigWord(a, i) == IF i \in 1..4 THEN a[i] ELSE 0

\* a * 2^k
BigShiftLeft(a, k) ==
    LET q == k \div 28
        r == k % 28
    IN  [i \in 1..4 |->
            (BigWord(a, i - q) % 2^(28 - r)) * 2^r
            + (BigWord(a, i - q - 1) \div 2^(28 - r))]

\* a \div 2^k
BigShiftRight(a, k) ==
    LET q == k \div 28
        r == k % 28
    IN  [i \in 1..4 |->
            (BigWord(a, i + q) \div 2^r)
            + (BigWord(a, i + q + 1) % 2^r) * 2^(28 - r)]

\* a % 2^k # 0
BigLowBits(a, k) ==
    LET q == k \div 28
        r == k % 28
    IN  \E i \in 1..4 : \/ i <= q /\ a[i] # 0
                        \/ i = q + 1 /\ a[i] % 2^r # 0

\* bit k of a, bit 0 the lowest
BigBit(a, k) == (BigWord(a, (k \div 28) + 1) \div 2^(k % 28)) % 2

\* the number of bits of a word
BitLen(v) ==
    IF v = 0 THEN 0 ELSE CHOOSE k \in 1..28 : 2^(k - 1) <= v /\ v < 2^k

BigBitLength(a) ==
    IF a[4] # 0 THEN 84 + BitLen(a[4])
    ELSE IF a[3] # 0 THEN 56 + BitLen(a[3])
    ELSE IF a[2] # 0 THEN 28 + BitLen(a[2])
    ELSE BitLen(a[1])

\* the number r * 2^exp for a significand r of Precision bits, or r = 2^53
\* after a carry out of the rounding
Renormalized(sign, exp, r) ==
    IF r[2] = 2^25 THEN Finite(sign, exp + 1, 2^24, 0)
    ELSE Finite(sign, exp, r[2], r[1])

\* round to nearest, ties to even: q = a \div 2^shift is rounded up when
\* the first bit shifted out is 1 and a later one is, or q is odd
RoundsUp(a, sticky, shift, q) ==
    /\ BigBit(a, shift - 1) = 1
    /\ (sticky \/ BigLowBits(a, shift - 1) \/ q[1] % 2 = 1)

RoundShifted(sign, a, exp, sticky, shift, q) ==
    Renormalized(sign, exp + shift,
                 IF RoundsUp(a, sticky, shift, q)
                 THEN BigNorm(<<q[1] + 1, q[2], 0, 0>>) ELSE q)

RoundAt(sign, a, exp, sticky, shift) ==
    IF shift <= 0
    THEN Renormalized(sign, exp + shift, BigShiftLeft(a, 0 - shift))
    ELSE RoundShifted(sign, a, exp, sticky, shift, BigShiftRight(a, shift))

\* the double nearest to (a + f) * 2^exp, ties to even, for a natural
\* a > 0 and a fraction f in [0, 1) that is not 0 exactly when sticky;
\* a has more than Precision + 1 bits when sticky
Round(sign, a, exp, sticky) ==
    RoundAt(sign, a, exp, sticky, BigBitLength(a) - Precision)

\* the number an integer 0 <= n < 2^31 is
FromInt(n) ==
    IF n = 0 THEN Zero(0)
    ELSE Round(0, <<n % Word, n \div Word, 0, 0>>, 0, FALSE)

XorSign(a, b) == IF a.sign = b.sign THEN 0 ELSE 1

\* the product of two significands
BigMul(ah, al, bh, bl) ==
    LET a0 == al % HalfWord
        a1 == al \div HalfWord
        a2 == ah % HalfWord
        a3 == ah \div HalfWord
        b0 == bl % HalfWord
        b1 == bl \div HalfWord
        b2 == bh % HalfWord
        b3 == bh \div HalfWord
        k0 == a0 * b0
        k1 == a0 * b1 + a1 * b0
        k2 == a0 * b2 + a1 * b1 + a2 * b0
        k3 == a0 * b3 + a1 * b2 + a2 * b1 + a3 * b0
        k4 == a1 * b3 + a2 * b2 + a3 * b1
        k5 == a2 * b3 + a3 * b2
        k6 == a3 * b3
    IN  BigNorm(<<k0 + (k1 % HalfWord) * HalfWord,
                  (k1 \div HalfWord) + k2 + (k3 % HalfWord) * HalfWord,
                  (k3 \div HalfWord) + k4 + (k5 % HalfWord) * HalfWord,
                  (k5 \div HalfWord) + k6>>)

\* a * b
FMul(a, b) ==
    IF a.kind = "nan" \/ b.kind = "nan" THEN NotANumber
    ELSE IF a.kind = "inf" \/ b.kind = "inf"
    THEN IF a.kind = "zero" \/ b.kind = "zero" THEN NotANumber
         ELSE Infinity(XorSign(a, b))
    ELSE IF a.kind = "zero" \/ b.kind = "zero" THEN Zero(XorSign(a, b))
    ELSE Round(XorSign(a, b), BigMul(a.hi, a.lo, b.hi, b.lo),
               a.exp + b.exp, FALSE)

\* Long division of significands, 14 bits of the quotient at a time.  A
\* step takes the remainder rest < d and gives the digit
\* floor(rest * 2^14 / d) and the new remainder; the digit is estimated
\* from the leading bits, at most 1 too low, and corrected.
DivEstimate(rest, dh) ==
    ((rest[2] \div 2^8) * HalfWord) \div ((dh \div 2^8) + 1)

DivEstimated(rest, dh, dl, estimate) ==
    [digit |-> estimate,
     rest |-> BigSub(BigShiftLeft(rest, 14), BigMul(0, estimate, dh, dl))]

DivCorrect(s, dh, dl) ==
    IF s.rest[2] > dh \/ (s.rest[2] = dh /\ s.rest[1] >= dl)
    THEN [digit |-> s.digit + 1, rest |-> BigSub(s.rest, <<dl, dh, 0, 0>>)]
    ELSE s

DivDigit(rest, dh, dl) ==
    DivCorrect(DivCorrect(DivEstimated(rest, dh, dl, DivEstimate(rest, dh)),
                          dh, dl), dh, dl)

DivPush(quotient, d) ==
    [quotient |-> BigAdd(BigShiftLeft(quotient, 14), <<d.digit, 0, 0, 0>>),
     rest |-> d.rest]

\* n more digits of the quotient
RECURSIVE DivDigits(_, _, _, _)
DivDigits(s, dh, dl, n) ==
    IF n = 0 THEN s
    ELSE DivDigits(DivPush(s.quotient, DivDigit(s.rest, dh, dl)), dh, dl, n - 1)

\* the bit of the quotient above the point
DivStart(ah, al, bh, bl) ==
    IF ah > bh \/ (ah = bh /\ al >= bl)
    THEN [quotient |-> <<1, 0, 0, 0>>,
          rest |-> BigSub(<<al, ah, 0, 0>>, <<bl, bh, 0, 0>>)]
    ELSE [quotient |-> <<0, 0, 0, 0>>, rest |-> <<al, ah, 0, 0>>]

DivRounded(sign, exp, s) ==
    Round(sign, s.quotient, exp, s.rest # <<0, 0, 0, 0>>)

\* a / b: the quotient of the significands to 56 bits below the point,
\* rounded
FDiv(a, b) ==
    IF a.kind = "nan" \/ b.kind = "nan" THEN NotANumber
    ELSE IF a.kind = "inf"
    THEN IF b.kind = "inf" THEN NotANumber ELSE Infinity(XorSign(a, b))
    ELSE IF b.kind = "inf" THEN Zero(XorSign(a, b))
    ELSE IF b.kind = "zero"
    THEN IF a.kind = "zero" THEN NotANumber ELSE Infinity(XorSign(a, b))
    ELSE IF a.kind = "zero" THEN Zero(XorSign(a, b))
    ELSE DivRounded(XorSign(a, b), a.exp - b.exp - 56,
                    DivDigits(DivStart(a.hi, a.lo, b.hi, b.lo), b.hi, b.lo, 4))

\* |a| >= |b| for finite a and b
MagnitudeAtLeast(a, b) ==
    \/ a.exp > b.exp
    \/ a.exp = b.exp /\ (a.hi > b.hi \/ (a.hi = b.hi /\ a.lo >= b.lo))

\* the significand of a finite number with three more bits below it
Extended(a) == <<(a.lo % 2^25) * 8, a.hi * 8 + (a.lo \div 2^25), 0, 0>>

\* the bits shifted out of an operand are kept as one sticky bit, the lowest
Jammed(shifted, lost) ==
    IF lost /\ shifted[1] % 2 = 0
    THEN <<shifted[1] + 1, shifted[2], shifted[3], shifted[4]>>
    ELSE shifted

\* the extended significand of y at an exponent d higher
Aligned(y, d) ==
    Jammed(BigShiftRight(Extended(y), d), BigLowBits(Extended(y), d))

RoundedDifference(sign, exp, difference) ==
    IF difference = <<0, 0, 0, 0>> THEN Zero(0)
    ELSE Round(sign, difference, exp, FALSE)

\* x + y for finite x and y with |x| >= |y|: the smaller operand is
\* shifted to the exponent of the larger
AddFinite(x, y) ==
    IF x.sign = y.sign
    THEN Round(x.sign, BigAdd(Extended(x), Aligned(y, x.exp - y.exp)),
               x.exp - 3, FALSE)
    ELSE RoundedDifference(x.sign, x.exp - 3,
                           BigSub(Extended(x), Aligned(y, x.exp - y.exp)))

\* a + b
FAdd(a, b) ==
    IF a.kind = "nan" \/ b.kind = "nan" THEN NotANumber
    ELSE IF a.kind = "inf"
    THEN IF b.kind = "inf" /\ b.sign # a.sign THEN NotANumber ELSE a
    ELSE IF b.kind = "inf" THEN b
    ELSE IF a.kind = "zero"
    THEN IF b.kind = "zero"
         THEN Zero(IF a.sign = 1 /\ b.sign = 1 THEN 1 ELSE 0)
         ELSE b
    ELSE IF b.kind = "zero" THEN a
    ELSE IF MagnitudeAtLeast(a, b) THEN AddFinite(a, b)
    ELSE AddFinite(b, a)

Negated(a) == IF a.kind = "nan" THEN a ELSE [a EXCEPT !.sign = 1 - a.sign]

\* a - b
FSub(a, b) == FAdd(a, Negated(b))

\* |a| > |b| for numbers that are not NaN
MagnitudeGreater(a, b) ==
    IF a.kind = "zero" THEN FALSE
    ELSE IF b.kind = "zero" THEN TRUE
    ELSE IF b.kind = "inf" THEN FALSE
    ELSE IF a.kind = "inf" THEN TRUE
    ELSE ~MagnitudeAtLeast(b, a)

\* a > b
FGreater(a, b) ==
    IF a.kind = "nan" \/ b.kind = "nan" THEN FALSE
    ELSE IF a.sign = 0
    THEN IF b.sign = 0 THEN MagnitudeGreater(a, b)
         ELSE ~(a.kind = "zero" /\ b.kind = "zero")
    ELSE IF b.sign = 0 THEN FALSE
    ELSE MagnitudeGreater(b, a)

(***************************************************************************)
(* Binarizer (Otsu), revision 1.                                           *)
(* Adding the +0 of an empty histogram bin, or index * 0 for it, changes   *)
(* no sum, so the sums of the source over all indices are the sums over    *)
(* the bins that hold pixels, in ascending order of the index.             *)
(***************************************************************************)
RECURSIVE Flatten(_)
Flatten(matrix) ==
    IF matrix = <<>> THEN <<>> ELSE Head(matrix) \o Flatten(Tail(matrix))

\* histogram[v] after the loops of lines 128..133
histogram(pixels, v) == Cardinality({k \in 1..Len(pixels) : pixels[k] = v})

RECURSIVE Ascending(_)
Ascending(values) ==
    IF values = {} THEN <<>>
    ELSE LET least == CHOOSE v \in values : \A w \in values : v <= w
         IN  <<least>> \o Ascending(values \ {least})

\* the indices of the bins that hold pixels, ascending
Bins(pixels) == Ascending({pixels[k] : k \in 1..Len(pixels)})

\* line 136, on the bins that hold pixels (the others are 0 / totalPixels):
\* element k is normalizedHistogram[bins[k]]
RECURSIVE normalizedHistogram(_, _, _)
normalizedHistogram(pixels, totalPixels, bins) ==
    IF bins = <<>> THEN <<>>
    ELSE <<FDiv(FromInt(histogram(pixels, Head(bins))), FromInt(totalPixels))>>
         \o normalizedHistogram(pixels, totalPixels, Tail(bins))

\* cumulativeSum[t] (lines 139..143): the running sum over the bins from
\* bins[k] up to index t, added to sum
RECURSIVE cumulativeSum(_, _, _, _, _)
cumulativeSum(normalized, bins, t, k, sum) ==
    IF k > Len(bins) \/ bins[k] > t THEN sum
    ELSE cumulativeSum(normalized, bins, t, k + 1,
                       FAdd(sum, normalized[k]))

\* reduce((sum, value, index) => sum + index * normalizedHistogram[index])
\* over the indices from bins[k] up to last, added to sum
RECURSIVE IndexSum(_, _, _, _, _)
IndexSum(normalized, bins, last, k, sum) ==
    IF k > Len(bins) \/ bins[k] > last THEN sum
    ELSE IndexSum(normalized, bins, last, k + 1,
                  FAdd(sum, FMul(FromInt(bins[k]), normalized[k])))

\* reduce((sum, value, index) => ..) over cumulativeSum.slice(t + 1) numbers
\* the elements of the slice from 0: the indices are 0 .. 254 - t
ForegroundLastIndex(t) == HistogramSize - 2 - t

\* lines 150, 151 at threshold t
Weights(backgroundWeight) ==
    [background |-> backgroundWeight,
     foreground |-> FSub(FromInt(1), backgroundWeight)]

\* lines 153..159
Means(normalized, bins, t, weight) ==
    [background |->
        FDiv(IndexSum(normalized, bins, t, 1, Zero(0)), weight.background),
     foreground |->
        FDiv(IndexSum(normalized, bins, ForegroundLastIndex(t), 1, Zero(0)),
             weight.foreground)]

\* Math.pow(x, 2) is x * x
Square(x) == FMul(x, x)

\* line 161
BetweenClass(weight, mean) ==
    FMul(FMul(weight.background, weight.foreground),
         Square(FSub(mean.background, mean.foreground)))

VarianceAt(normalized, bins, t, weight) ==
    BetweenClass(weight, Means(normalized, bins, t, weight))

\* the variance of lines 150..161 at threshold t
Variance(normalized, bins, t) ==
    VarianceAt(normalized, bins, t,
               Weights(cumulativeSum(normalized, bins, t, 1, Zero(0))))

\* The loop of lines 149..167 visits t = 0, 1, .., 255.  The variance at t
\* depends on t only through the bins of index <= t and of index <= 254 - t,
\* so it changes only at the index v of a bin that holds pixels or at
\* 255 - v; between two such thresholds it is the same number, and the
\* strict test of line 163 fires at most at the first t of a run.  The
\* model visits these first thresholds, in ascending order.
Thresholds(pixels) ==
    {0} \cup {pixels[k] : k \in 1..Len(pixels)}
        \cup {HistogramSize - 1 - pixels[k] : k \in 1..Len(pixels)}

Least(ts) == CHOOSE u \in ts : \A w \in ts : u <= w

RECURSIVE OtsuScan(_, _, _, _, _)
\* lines 163..166 for the variance at t, and the thresholds after t
OtsuTest(normalized, bins, ts, maxVariance, threshold, t, variance) ==
    IF FGreater(variance, maxVariance)
    THEN OtsuScan(normalized, bins, ts, variance, t)
    ELSE OtsuScan(normalized, bins, ts, maxVariance, threshold)

OtsuScan(normalized, bins, ts, maxVariance, threshold) ==
    IF ts # {}
    THEN OtsuTest(normalized, bins, ts \ {Least(ts)}, maxVariance, threshold,
                  Least(ts), Variance(normalized, bins, Least(ts)))
    ELSE threshold

\* lines 125..167: the threshold binarizeWithOtsu selects
OtsuThreshold(matrix) ==
    LET pixels == Flatten(matrix)
        totalPixels == Len(matrix) * Len(matrix[1])
        bins == Bins(pixels)
    IN  OtsuScan(normalizedHistogram(pixels, totalPixels, bins), bins,
                 Thresholds(pixels), Zero(0), 0)

BinarizeCellInclusive(pixelValue, threshold) ==
    IF pixelValue >= threshold THEN Foreground ELSE 0

\* line 176
BinarizeCell(pixelValue, threshold) ==
    IF pixelValue > threshold THEN Foreground ELSE 0

\* lines 170..180
Binarized(matrix, threshold) ==
    [i \in 1..Len(matrix) |->
        [j \in 1..Len(matrix[1]) |-> BinarizeCell(matrix[i][j], threshold)]]

binarizeWithOtsu(matrix) == Binarized(matrix, OtsuThreshold(matrix))

(***************************************************************************)
(* Box-Counting Estimator                                                  *)
(***************************************************************************)
\* getBoxPixels: neighborhood[upMostY] of a row that does not exist is
\* undefined, and undefined.slice throws TypeError.  The result records the
\* row indices read, the pixels gathered and whether the call threw.
RECURSIVE getBoxPixelsLoop(_, _, _, _, _, _)
getBoxPixelsLoop(neighborhood, upMostY, leftMostX, boxSize, rowCount, box) ==
    IF rowCount < boxSize
    THEN IF upMostY >= Len(neighborhood)
         THEN [threw |-> TRUE, pixels |-> box.pixels,
               rows |-> Append(box.rows, upMostY)]
         ELSE getBoxPixelsLoop(neighborhood, upMostY + 1, leftMostX, boxSize,
                  rowCount + 1,
                  [threw  |-> FALSE,
                   pixels |-> box.pixels \o
                       Slice(neighborhood[upMostY + 1], leftMostX,
                             leftMostX + boxSize),
                   rows   |-> Append(box.rows, upMostY)])
    ELSE box

getBoxPixels(neighborhood, upMostY, leftMostX, boxSize) ==
    getBoxPixelsLoop(neighborhood, upMostY, leftMostX, boxSize, 0,
                     [threw |-> FALSE, pixels |-> <<>>, rows |-> <<>>])

\* mainPixel is not used by the source either
isBoxCountable(boxPixels, mainPixel) ==
    \A k \in 1..Len(boxPixels) : boxPixels[k] # 0

\* the values 0, boxSize, 2 * boxSize, .. below NEIGHBORHOOD_SIZE that the
\* loops of lines 338 and 339 give i and j
RECURSIVE Origins(_, _, _)
Origins(from, boxSize, size) ==
    IF from < size THEN <<from>> \o Origins(from + boxSize, boxSize, size)
    ELSE <<>>

\* the boxes of one box size in the order the two loops visit them
BoxOrigins(boxSize, size) ==
    LET o == Origins(0, boxSize, size)
    IN  [k \in 1..(Len(o) * Len(o)) |->
            <<o[((k - 1) \div Len(o)) + 1], o[((k - 1) % Len(o)) + 1]>>]

\* the two inner loops for one box size, up to the first throw
RECURSIVE CountBoxes(_, _, _, _, _)
CountBoxes(neighborhood, boxSize, origins, k, scan) ==
    IF k > Len(origins) THEN scan
    ELSE LET i == origins[k][1]
             j == origins[k][2]
             box == getBoxPixels(neighborhood, i, j, boxSize)
             tile == [boxSize |-> boxSize, i |-> i, j |-> j,
                      rows |-> box.rows, pixels |-> box.pixels,
                      threw |-> box.threw]
         IN  IF box.threw
             THEN [threw |-> TRUE, boxesCount |-> scan.boxesCount,
                   tiles |-> Append(scan.tiles, tile)]
             ELSE CountBoxes(neighborhood, boxSize, origins, k + 1,
                      [threw |-> FALSE,
                       boxesCount |-> scan.boxesCount +
                           (IF isBoxCountable(box.pixels, 0) THEN 1 ELSE 0),
                       tiles |-> Append(scan.tiles, tile)])

\* Math.log of a count: minus infinity at 0, else the logarithm, kept as
\* the number it is the logarithm of
MathLog(n) ==
    IF n = 0 THEN [finite |-> FALSE, lnOf |-> 0]
    ELSE [finite |-> TRUE, lnOf |-> n]

\* the loop condition on boxSize: maxBoxSize is NEIGHBORHOOD_SIZE / 2, a
\* double; revision 1 (line 99) tests <=, revision 2 (line 335) tests <
BoxSizeInRange(this, boxSize) ==
    IF this.rev = 1
    THEN 2 * boxSize <= this.NEIGHBORHOOD_SIZE
    ELSE 2 * boxSize < this.NEIGHBORHOOD_SIZE

\* the loop over the box sizes, up to the first throw: the data points and,
\* per box size, the boxes evaluated
RECURSIVE BoxSizeLoop(_, _, _, _)
BoxSizeLoop(this, neighborhood, boxSize, acc) ==
    IF BoxSizeInRange(this, boxSize)
    THEN LET scan == CountBoxes(neighborhood, boxSize,
                         BoxOrigins(boxSize, this.NEIGHBORHOOD_SIZE), 1,
                         [threw |-> FALSE, boxesCount |-> 0, tiles |-> <<>>])
         IN  IF scan.threw
             THEN [threw |-> TRUE, data |-> acc.data,
                   scans |-> Append(acc.scans, scan)]
             ELSE BoxSizeLoop(this, neighborhood,
                      boxSize * this.SCALING_FACTOR,
                      [threw |-> FALSE,
                       data  |-> Append(acc.data,
                                   [boxSize |-> boxSize,
                                    logBoxSize |-> MathLog(boxSize),
                                    boxesCount |-> scan.boxesCount,
                                    logBoxesCount |-> MathLog(scan.boxesCount)]),
                       scans |-> Append(acc.scans, scan)])
    ELSE acc

\* lines 335..351 (99..115): the box counting over a neighbourhood
BoxCounting(this, neighborhood) ==
    BoxSizeLoop(this, neighborhood, this.MIN_BOX_SIZE,
                [threw |-> FALSE, data |-> <<>>, scans |-> <<>>])

\* the neighbourhood calculateFractalDimension counts boxes over: extracted,
\* and in revision 1 binarized (line 97)
CountedNeighborhood(this, imageMatrix, centerX, centerY) ==
    LET neighborhood == getNeighborhood(this.rev, imageMatrix, centerX,
                                        centerY, this.NEIGHBORHOOD_SIZE)
    IN  IF this.rev = 1
        THEN binarizeWithOtsu(neighborhood)
        ELSE neighborhood

\* calculateFractalDimension up to the call of regression.linear
Estimated(neighborhood, counted) ==
    [neighborhood |-> neighborhood, threw |-> counted.threw,
     data |-> counted.data, scans |-> counted.scans]

\* the loops of lines 99..114 (335..350) on the neighbourhood
BoxCounted(this, neighborhood) ==
    Estimated(neighborhood, BoxCounting(this, neighborhood))

calculateFractalDimension(this, imageMatrix, centerX, centerY) ==
    BoxCounted(this, CountedNeighborhood(this, imageMatrix, centerX, centerY))

(***************************************************************************)
(* Heatmap Renderer (revision 1; revision 2 stubs generateHeatmap).        *)
(* A field value is a double: NaN, or the multiple n / Steps of 1 / Steps. *)
(* A colour channel is a double: NaN, or the integer n.                    *)
(***************************************************************************)
NaN == [nan |-> TRUE, n |-> 0]

Num(n) == [nan |-> FALSE, n |-> n]

\* Math.round(num / den) for den > 0: the nearest integer, a half rounded up
MathRound(num, den) == (2 * num + den) \div (2 * den)

getColor(value) ==
    IF value.nan THEN <<NaN, Num(0), NaN>>
    ELSE <<Num(MathRound(255 * value.n, Steps)),
           Num(0),
           Num(MathRound(255 * (Steps - value.n), Steps))>>

\* image[i] = number, on a Buffer: ToUint8 (NaN is 0, an integer is taken
\* modulo 256)
ToUint8(number) == IF number.nan THEN 0 ELSE number.n % ByteRange

\* lines 62..76: the raster of generateHeatmap of revision 1, three bytes per
\* cell, row by row
HeatmapImage(matrix) ==
    LET height == Len(matrix)
        width == Len(matrix[1])
    IN  [i \in 1..(width * height * 3) |->
            LET cell == (i - 1) \div 3
                value == matrix[(cell \div width) + 1][(cell % width) + 1]
            IN  ToUint8(getColor(value)[((i - 1) % 3) + 1])]

\* regression.linear(data).equation[0]: the library is not part of the
\* repository, so the gradient is any of the values of the argument.  A
\* data point whose log count is minus infinity makes the least-squares sums
\* infinite or NaN, and the gradient may then be NaN as well.
Gradient(data, gradients) ==
    IF \E k \in 1..Len(data) : ~data[k].logBoxesCount.finite
    THEN {NaN} \cup {Num(g) : g \in gradients}
    ELSE {Num(g) : g \in gradients}

\* lines 355, 356 (119, 120): revision 2 negates the gradient
FractalDimension(this, gradient) ==
    IF this.rev = 2 /\ ~gradient.nan THEN Num(0 - gradient.n) ELSE gradient

(***************************************************************************)
(* State.  `call` is one call of one method of the service on its own: the *)
(* method, its arguments and what it returned.                             *)
(***************************************************************************)
VARIABLES call

(***************************************************************************)
(* State of the invocations of uploadFile (lines 246..262, 20..35) on one  *)
(* service instance.  The service has only readonly fields; every other    *)
(* variable is a local of an invocation, a function of the invocation:     *)
(*   service   the service instance                                        *)
(*   pc        the statement the invocation has reached                    *)
(*   file      what sharp decoded: data (the pixel buffer) and info.width  *)
(*   grayscaleImageMatrix, squaredImagePixels, fractalDimensionMatrix,     *)
(*   image, response   the locals of uploadFile and of the methods it      *)
(*             calls, None before they are assigned                        *)
(*   position  y and x of the loops of getFractalDimensionMatrix           *)
(*   localNeighborhood   the neighborhood of calculateFractalDimension     *)
(*   log       the methods run so far, in order                            *)
(* uploadFile is an async function: between two awaits an invocation runs  *)
(* alone, and at an await (lines 21 and 78) the event loop may run         *)
(* another invocation.                                                     *)
(***************************************************************************)
VARIABLES service, pc, file, grayscaleImageMatrix, squaredImagePixels,
          fractalDimensionMatrix, position, localNeighborhood, image,
          response, log

uploadVars == <<service, pc, file, grayscaleImageMatrix, squaredImagePixels,
                fractalDimensionMatrix, position, localNeighborhood, image,
                response, log>>

vars == <<call, uploadVars>>

Bytes == {0, 1, 255}

Buffers == UNION {[1..n -> Bytes] : n \in 0..MaxLen}

\* rectangular grids of h rows and w columns
Grids(h, w, values) == [1..h -> [1..w -> values]]

\* the grid of h rows and w columns whose cells are 1, 2, 3, .. row by row
Ramp(h, w) == [r \in 1..h |-> [c \in 1..w |-> (r - 1) * w + c]]

\* the grid of h rows and w columns whose cells all hold `value`
Constant(h, w, value) == [r \in 1..h |-> [c \in 1..w |-> value]]

\* grids handed to squareMatrix: of every shape, with cells that all differ
\* and differ from the padding, and all zero
SquareSources ==
    {Ramp(h, w) : h \in 1..MaxDim, w \in 1..MaxDim}
    \cup {Constant(h, w, 0) : h \in 1..MaxDim, w \in 1..MaxDim}

NeighborhoodSources ==
    {Ramp(h, w) : h \in 1..MaxSide, w \in 1..MaxSide}

\* Otsu is called on every grid of 1, 2, 3 and 4 pixels over OtsuValues,
\* and on two grids of 6 pixels.  With 3 or 6 pixels the quotients
\* histogram[v] / totalPixels are rounded, and the cumulative sums need not
\* reach 1: on RoundedGrids cumulativeSum[255] is 1 - 2^-53.
OtsuShapes == {<<1, 1>>, <<1, 2>>, <<2, 1>>, <<1, 3>>, <<2, 2>>}

OtsuValues == {0, 2, 127, 128, 254, 255}

RoundedGrids ==
    {<<<<50, 50, 3, 3, 200, 0>>>>, <<<<0, 255, 254, 50, 127, 50>>>>}

OtsuSources ==
    UNION {Grids(sh[1], sh[2], OtsuValues) : sh \in OtsuShapes}
    \cup RoundedGrids

Revisions == {1, 2}

\* the service instances of the model: revision 1 is
\* [NEIGHBORHOOD_SIZE |-> 81, SCALING_FACTOR |-> 3, MIN_BOX_SIZE |-> 1]
\* (lines 16..18), revision 2 is
\* [NEIGHBORHOOD_SIZE |-> 128, SCALING_FACTOR |-> 2, MIN_BOX_SIZE |-> 2]
\* (lines 242..244)
Services ==
    [rev : Revisions,
     NEIGHBORHOOD_SIZE : 1..MaxN,
     SCALING_FACTOR : 2..MaxScale,
     MIN_BOX_SIZE : 1..MaxMinBox]

\* images the estimator is called on: every small two-valued image, and
\* the all-foreground and all-background images of every size
EstimatorSources ==
    UNION {Grids(h, w, {0, 200}) : h \in 1..2, w \in 1..2}
    \cup {Constant(h, h, v) : h \in 1..MaxSide, v \in {0, 200}}

\* field values handed to the renderer: the multiples of 1 / Steps in [0, 2]
FieldValues == {Num(k) : k \in 0..(2 * Steps)}

FieldSources == UNION {Grids(1, w, FieldValues) : w \in 1..2}

Idle == [op |-> "none"]

None == <<>>

Invocations == 1..MaxCalls

NoFile == [data |-> <<>>, width |-> 1]

Origin == [y |-> 0, x |-> 0]

\* the locals of invocations that have reached `at` and assigned nothing
Fresh(at) ==
    /\ pc = [i \in Invocations |-> at]
    /\ file = [i \in Invocations |-> NoFile]
    /\ grayscaleImageMatrix = [i \in Invocations |-> None]
    /\ squaredImagePixels = [i \in Invocations |-> None]
    /\ fractalDimensionMatrix = [i \in Invocations |-> None]
    /\ position = [i \in Invocations |-> Origin]
    /\ localNeighborhood = [i \in Invocations |-> None]
    /\ image = [i \in Invocations |-> None]
    /\ response = [i \in Invocations |-> None]
    /\ log = [i \in Invocations |-> <<>>]

\* uploadFile is not called
NoUpload ==
    /\ service = [rev |-> 2, NEIGHBORHOOD_SIZE |-> 1, SCALING_FACTOR |-> 2,
                  MIN_BOX_SIZE |-> 1]
    /\ Fresh("idle")

FnInit == call = Idle /\ NoUpload

CallToPixelMatrix ==
    /\ call = Idle
    /\ UNCHANGED uploadVars
    /\ \E pixelArray \in Buffers, width \in 1..MaxWidth :
        call' = [op |-> "toPixelMatrix", pixelArray |-> pixelArray,
                 width |-> width, threw |-> "none",
                 result |-> toPixelMatrix(pixelArray, width)]

CallSquareMatrix ==
    /\ call = Idle
    /\ UNCHANGED uploadVars
    /\ \E grid \in SquareSources :
        LET source == Store(grid)
        IN  call' = [op |-> "squareMatrix", grid |-> grid,
                     pixelMatrix |-> source.matrix,
                     result |-> squareMatrix(source.heap, source.matrix)]

CallGetNeighborhood ==
    /\ call = Idle
    /\ UNCHANGED uploadVars
    /\ \E rev \in Revisions, imageMatrix \in NeighborhoodSources,
          neighborhoodSize \in 1..MaxN :
        \E x \in 0..(Len(imageMatrix) - 1), y \in 0..(Len(imageMatrix[1]) - 1) :
            call' = [op |-> "getNeighborhood", rev |-> rev,
                     imageMatrix |-> imageMatrix, x |-> x, y |-> y,
                     neighborhoodSize |-> neighborhoodSize,
                     padded |-> PaddedCells(rev, imageMatrix, x, y,
                                            neighborhoodSize),
                     result |-> getNeighborhood(rev, imageMatrix, x, y,
                                                neighborhoodSize)]

OtsuCall(matrix, threshold) ==
    [op |-> "binarizeWithOtsu", matrix |-> matrix, threshold |-> threshold,
     result |-> Binarized(matrix, threshold)]

CallBinarizeWithOtsu ==
    /\ call = Idle
    /\ UNCHANGED uploadVars
    /\ \E matrix \in OtsuSources :
        call' = OtsuCall(matrix, OtsuThreshold(matrix))

CallCalculateFractalDimension ==
    /\ call = Idle
    /\ UNCHANGED uploadVars
    /\ \E this \in Services, imageMatrix \in EstimatorSources :
        \E centerX \in 0..(Len(imageMatrix) - 1),
           centerY \in 0..(Len(imageMatrix[1]) - 1) :
            call' = [op |-> "calculateFractalDimension", this |-> this,
                     imageMatrix |-> imageMatrix,
                     centerX |-> centerX, centerY |-> centerY,
                     result |-> calculateFractalDimension(this, imageMatrix,
                                                          centerX, centerY)]

CallGenerateHeatmap ==
    /\ call = Idle
    /\ UNCHANGED uploadVars
    /\ \E matrix \in FieldSources :
        call' = [op |-> "generateHeatmap", matrix |-> matrix,
                 threw |-> "none",
                 colors |-> [c \in 1..Len(matrix[1]) |-> getColor(matrix[1][c])],
                 image |-> HeatmapImage(matrix)]

Return ==
    /\ call # Idle
    /\ call' = Idle
    /\ UNCHANGED uploadVars

FnNext ==
    \/ CallToPixelMatrix
    \/ CallSquareMatrix
    \/ CallGetNeighborhood
    \/ CallBinarizeWithOtsu
    \/ CallCalculateFractalDimension
    \/ CallGenerateHeatmap
    \/ Return

SpecFn == FnInit /\ [][FnNext]_vars

(***************************************************************************)
(* One invocation of uploadFile.                                           *)
(***************************************************************************)
\* sharp(..).greyscale().raw().toBuffer: width * height samples, row by row
Decoded(grid) == [data |-> Flatten(grid), width |-> Len(grid[1])]

\* the images uploaded: the all-foreground image of every shape, a mixed
\* one and an all-background one
UploadGrids ==
    {Constant(h, w, 200) : h \in 1..MaxImage, w \in 1..MaxImage}
    \cup {<<<<0, 200>>>>, <<<<0>>>>}

Uploads == {Decoded(grid) : grid \in UploadGrids}

\* the gradients regression.linear is taken to return, in 1 / Steps
Gradients == {0 - Steps, 0}

\* the statements an invocation runs in one turn of the event loop
Synchronous ==
    {"toPixelMatrix", "squareMatrix", "getFractalDimensionMatrix",
     "getNeighborhood", "binarizeWithOtsu", "boxCounting", "generateHeatmap",
     "return"}

\* no invocation is running: the event loop takes the next settled promise
LoopIsFree == \A i \in Invocations : pc[i] \notin Synchronous

\* the instances uploadFile runs on: of either revision, with the scaling
\* factor and the least box size of the revision (lines 17, 18 and 243,
\* 244) and every neighbourhood size
Deployed ==
    {this \in Services :
        /\ this.SCALING_FACTOR = (IF this.rev = 1 THEN 3 ELSE 2)
        /\ this.MIN_BOX_SIZE = (IF this.rev = 1 THEN 1 ELSE 2)}

\* uploadFile has been called MaxCalls times on one instance, and every
\* invocation awaits its decoding (line 247, 21)
Init ==
    /\ call = Idle
    /\ service \in Deployed
    /\ Fresh("toBuffer")

\* the await of line 247 (21) settles: sharp has decoded the file of
\* invocation i, or the promise rejects (the file is missing, or is no image
\* sharp can decode) and the invocation ends by throwing before any method
\* of the service runs.  The invocations are numbered in the order their
\* decodings settle.
Decoder(i) ==
    /\ pc[i] = "toBuffer"
    /\ LoopIsFree
    /\ \A j \in 1..(i - 1) : pc[j] # "toBuffer"
    /\ \/ /\ \E decoded \in Uploads : file' = [file EXCEPT ![i] = decoded]
          /\ pc' = [pc EXCEPT ![i] = "toPixelMatrix"]
       \/ /\ pc' = [pc EXCEPT ![i] = "threw"]
          /\ UNCHANGED file
    /\ UNCHANGED <<call, service, grayscaleImageMatrix, squaredImagePixels,
                   fractalDimensionMatrix, position, localNeighborhood, image,
                   response, log>>

\* line 255 (29)
GridBuilder(i) ==
    /\ pc[i] = "toPixelMatrix"
    /\ grayscaleImageMatrix' =
           [grayscaleImageMatrix EXCEPT
               ![i] = toPixelMatrix(file[i].data, file[i].width)]
    /\ pc' = [pc EXCEPT ![i] = IF service.rev = 2 THEN "squareMatrix"
                               ELSE "getFractalDimensionMatrix"]
    /\ log' = [log EXCEPT ![i] = Append(@, <<"toPixelMatrix">>)]
    /\ UNCHANGED <<call, service, file, squaredImagePixels, fractalDimensionMatrix,
                   position, localNeighborhood, image, response>>

\* line 256, revision 2 only
GridNormalizer(i) ==
    /\ pc[i] = "squareMatrix"
    /\ squaredImagePixels' =
           [squaredImagePixels EXCEPT ![i] = squareGrid(grayscaleImageMatrix[i])]
    /\ pc' = [pc EXCEPT ![i] = "getFractalDimensionMatrix"]
    /\ log' = [log EXCEPT ![i] = Append(@, <<"squareMatrix">>)]
    /\ UNCHANGED <<call, service, file, grayscaleImageMatrix,
                   fractalDimensionMatrix, position, localNeighborhood, image,
                   response>>

\* the argument of getFractalDimensionMatrix: line 257 and line 30
FieldSource(i) ==
    IF service.rev = 2 THEN squaredImagePixels[i] ELSE grayscaleImageMatrix[i]

\* initializeMatrix (lines 395..401, 218..224): height rows of width zeros,
\* each zero a field value
initializeMatrix(width, height) ==
    [i \in 1..height |-> [j \in 1..width |-> Num(0)]]

\* line 314 (52), and the entry of the loops
FieldBuilderStart(i) ==
    /\ pc[i] = "getFractalDimensionMatrix"
    /\ fractalDimensionMatrix' =
           [fractalDimensionMatrix EXCEPT
               ![i] = initializeMatrix(Len(FieldSource(i)[1]),
                                       Len(FieldSource(i)))]
    /\ position' = [position EXCEPT ![i] = Origin]
    /\ pc' = [pc EXCEPT ![i] = "getNeighborhood"]
    /\ UNCHANGED <<call, service, file, grayscaleImageMatrix, squaredImagePixels,
                   localNeighborhood, image, response, log>>

\* line 332 (95), for the cell (y, x) of the loops
NeighborhoodExtractor(i) ==
    /\ pc[i] = "getNeighborhood"
    /\ localNeighborhood' =
           [localNeighborhood EXCEPT
               ![i] = getNeighborhood(service.rev, FieldSource(i),
                                      position[i].y, position[i].x,
                                      service.NEIGHBORHOOD_SIZE)]
    /\ pc' = [pc EXCEPT ![i] = IF service.rev = 1 THEN "binarizeWithOtsu"
                               ELSE "boxCounting"]
    /\ log' = [log EXCEPT
                  ![i] = Append(@, <<"getNeighborhood", position[i].y,
                                     position[i].x>>)]
    /\ UNCHANGED <<call, service, file, grayscaleImageMatrix, squaredImagePixels,
                   fractalDimensionMatrix, position, image, response>>

\* line 97, revision 1 only
NeighborhoodBinarizer(i) ==
    /\ pc[i] = "binarizeWithOtsu"
    /\ localNeighborhood' =
           [localNeighborhood EXCEPT ![i] = binarizeWithOtsu(@)]
    /\ pc' = [pc EXCEPT ![i] = "boxCounting"]
    /\ log' = [log EXCEPT
                  ![i] = Append(@, <<"binarizeWithOtsu", position[i].y,
                                     position[i].x>>)]
    /\ UNCHANGED <<call, service, file, grayscaleImageMatrix, squaredImagePixels,
                   fractalDimensionMatrix, position, image, response>>

\* x++ of the inner loop and y++ of the outer loop (lines 315, 316)
NextPosition(y, x, width) ==
    IF x + 1 < width THEN [y |-> y, x |-> x + 1] ELSE [y |-> y + 1, x |-> 0]

\* lines 335..356 (99..120) and the store of line 317 (55): the box
\* counting, the regression and the next cell; a TypeError of getBoxPixels
\* ends the invocation
BoxCountingEstimator(i) ==
    /\ pc[i] = "boxCounting"
    /\ LET counted == BoxCounting(service, localNeighborhood[i])
           next == NextPosition(position[i].y, position[i].x,
                                Len(FieldSource(i)[1]))
       IN  /\ log' = [log EXCEPT
                         ![i] = Append(@, <<"boxCounting", position[i].y,
                                            position[i].x>>)]
           /\ IF counted.threw
              THEN /\ pc' = [pc EXCEPT ![i] = "threw"]
                   /\ UNCHANGED <<fractalDimensionMatrix, position>>
              ELSE /\ \E gradient \in Gradient(counted.data, Gradients) :
                        fractalDimensionMatrix' =
                            [fractalDimensionMatrix
                                EXCEPT ![i][position[i].y + 1][position[i].x + 1] =
                                    FractalDimension(service, gradient)]
                   /\ position' = [position EXCEPT ![i] = next]
                   /\ pc' = [pc EXCEPT
                                ![i] = IF next.y < Len(FieldSource(i))
                                       THEN "getNeighborhood"
                                       ELSE "generateHeatmap"]
    /\ UNCHANGED <<call, service, file, grayscaleImageMatrix, squaredImagePixels,
                   localNeighborhood, image, response>>

\* line 32, revision 1: generateHeatmap builds the raster (lines 62..76)
\* and awaits the encoding by sharp (lines 78..81)
HeatmapRenderer(i) ==
    /\ pc[i] = "generateHeatmap"
    /\ service.rev = 1
    /\ image' = [image EXCEPT ![i] = HeatmapImage(fractalDimensionMatrix[i])]
    /\ pc' = [pc EXCEPT ![i] = "toFile"]
    /\ log' = [log EXCEPT ![i] = Append(@, <<"generateHeatmap">>)]
    /\ UNCHANGED <<call, service, file, grayscaleImageMatrix, squaredImagePixels,
                   fractalDimensionMatrix, position, localNeighborhood, response>>

\* the await of line 78 settles: toFile has written the file and line 82
\* returns its path, or toFile rejects and line 81 throws
\* "Heatmap creation failed"
Encoder(i) ==
    /\ pc[i] = "toFile"
    /\ LoopIsFree
    /\ \E encoded \in BOOLEAN :
          pc' = [pc EXCEPT ![i] = IF encoded THEN "return" ELSE "threw"]
    /\ UNCHANGED <<call, service, file, grayscaleImageMatrix, squaredImagePixels,
                   fractalDimensionMatrix, position, localNeighborhood, image,
                   response, log>>

\* line 259, revision 2: generateHeatmap (lines 323..325) returns undefined;
\* the await of a promise that is already resolved resumes the invocation
\* before the event loop takes another settled promise, and
\* path.basename(undefined) throws TypeError
HeatmapStub(i) ==
    /\ pc[i] = "generateHeatmap"
    /\ service.rev = 2
    /\ pc' = [pc EXCEPT ![i] = "threw"]
    /\ log' = [log EXCEPT ![i] = Append(@, <<"generateHeatmap">>)]
    /\ UNCHANGED <<call, service, file, grayscaleImageMatrix, squaredImagePixels,
                   fractalDimensionMatrix, position, localNeighborhood, image,
                   response>>

\* line 34 (revision 1; line 261 of revision 2 is never reached)
Respond(i) ==
    /\ pc[i] = "return"
    /\ response' =
           [response EXCEPT
               ![i] = [heatmapImageSourceName |-> "img.png",
                       grayscaleData |-> grayscaleImageMatrix[i]]]
    /\ pc' = [pc EXCEPT ![i] = "returned"]
    /\ log' = [log EXCEPT ![i] = Append(@, <<"return">>)]
    /\ UNCHANGED <<call, service, file, grayscaleImageMatrix, squaredImagePixels,
                   fractalDimensionMatrix, position, localNeighborhood, image>>

Next ==
    \E i \in Invocations :
        \/ Decoder(i)
        \/ GridBuilder(i)
        \/ GridNormalizer(i)
        \/ FieldBuilderStart(i)
        \/ NeighborhoodExtractor(i)
        \/ NeighborhoodBinarizer(i)
        \/ BoxCountingEstimator(i)
        \/ HeatmapRenderer(i)
        \/ Encoder(i)
        \/ HeatmapStub(i)
        \/ Respond(i)

Spec == Init /\ [][Next]_vars

(***************************************************************************)
(* Claims about single methods, checked under SpecFn.                      *)
(***************************************************************************)

\* C1 (as stated): toPixelMatrix returns the consecutive rows of `width`
\* samples when the buffer length is a multiple of width, and otherwise
\* fails with MalformedInput and returns no grid with a short last row.
C1_GridBuilderFailsOnRaggedBuffer ==
    call.op = "toPixelMatrix" =>
        IF Len(call.pixelArray) % call.width = 0
        THEN /\ call.threw = "none"
             /\ call.result =
                    [r \in 1..(Len(call.pixelArray) \div call.width) |->
                        SubSeq(call.pixelArray, (r - 1) * call.width + 1,
                               r * call.width)]
        ELSE /\ call.threw = "MalformedInput"
             /\ \A r \in 1..Len(call.result) :
                    Len(call.result[r]) = call.width

\* C2: squareMatrix returns exactly S rows of exactly S cells, cell (r, c)
\* is the source cell when it exists and 0 otherwise, and the source grid
\* (its rows, at their addresses) is as it was before the call.
C2_SquareMatrixShapeAndContent ==
    call.op = "squareMatrix" =>
        LET out == Deref(call.result.heap, call.result.matrix)
            h == Len(call.grid)
            w == Len(call.grid[1])
        IN  /\ Len(out) = STANDARDIZED_IMAGE_SIZE
            /\ \A r \in 1..Len(out) :
                /\ Len(out[r]) = STANDARDIZED_IMAGE_SIZE
                /\ \A c \in 1..Len(out[r]) :
                    out[r][c] = IF r <= h /\ c <= w THEN call.grid[r][c] ELSE 0
            /\ Len(call.result.heap) >= h
            /\ Deref(call.result.heap, call.pixelMatrix) = call.grid

\* C2 witness: a source taller than S and narrower than S was normalized
C2_Witness ==
    /\ call.op = "squareMatrix"
    /\ Len(call.grid) > STANDARDIZED_IMAGE_SIZE
    /\ Len(call.grid[1]) < STANDARDIZED_IMAGE_SIZE
    /\ \E r \in 1..STANDARDIZED_IMAGE_SIZE : call.grid[r][1] # 0
    /\ Len(call.result.matrix) = STANDARDIZED_IMAGE_SIZE

\* C3 (as stated): getNeighborhood returns exactly N rows of exactly N
\* cells, each the source value at its offset coordinate, or 0 outside.
C3_NeighborhoodIsNByN ==
    call.op = "getNeighborhood" =>
        LET n == call.neighborhoodSize
            half == n \div 2
        IN  /\ Len(call.result) = n
            /\ \A r \in 1..Len(call.result) :
                /\ Len(call.result[r]) = n
                /\ \A c \in 1..Len(call.result[r]) :
                    LET i == call.x - half + r - 1
                        j == call.y - half + c - 1
                    IN  call.result[r][c] =
                            IF /\ i >= 0 /\ i < Len(call.imageMatrix)
                               /\ j >= 0 /\ j < Len(call.imageMatrix[1])
                            THEN call.imageMatrix[i + 1][j + 1]
                            ELSE 0

\* the box sizes B_min, B_min * k, .. of a service, as the source's loop
\* condition bounds them
RECURSIVE BoxSizes(_, _)
BoxSizes(this, boxSize) ==
    IF BoxSizeInRange(this, boxSize)
    THEN <<boxSize>> \o BoxSizes(this, boxSize * this.SCALING_FACTOR)
    ELSE <<>>

CeilDiv(a, b) == (a + b - 1) \div b

\* the cells of rows i .. min(i + b, N) - 1 and columns j .. min(j + b, N) - 1
\* of an N x N neighbourhood, row by row
ClippedBox(neighborhood, size, i, j, b) ==
    LET rows == Min(i + b, size) - i
        cols == Min(j + b, size) - j
    IN  [k \in 1..(rows * cols) |->
            neighborhood[i + ((k - 1) \div cols) + 1][j + ((k - 1) % cols) + 1]]

\* C4 (as stated): over an N x N neighbourhood, for every box size of the
\* progression each of the ceil(N/b) x ceil(N/b) boxes is evaluated, over
\* exactly the pixels of rows [i, min(i+b, N)) and columns [j, min(j+b, N));
\* no row outside 0..N-1 is read and no box is skipped.
C4_BoxesAreClippedToTheNeighborhood ==
    (/\ call.op = "calculateFractalDimension"
     /\ Len(call.result.neighborhood) = call.this.NEIGHBORHOOD_SIZE
     /\ \A r \in 1..Len(call.result.neighborhood) :
            Len(call.result.neighborhood[r]) = call.this.NEIGHBORHOOD_SIZE)
    =>
        LET size == call.this.NEIGHBORHOOD_SIZE
            sizes == BoxSizes(call.this, call.this.MIN_BOX_SIZE)
            scans == call.result.scans
        IN  /\ ~call.result.threw
            /\ Len(scans) = Len(sizes)
            /\ \A s \in 1..Len(scans) :
                LET b == sizes[s]
                    per == CeilDiv(size, b)
                IN  /\ Len(scans[s].tiles) = per * per
                    /\ \A k \in 1..Len(scans[s].tiles) :
                        LET tile == scans[s].tiles[k]
                        IN  /\ tile.boxSize = b
                            /\ tile.i = ((k - 1) \div per) * b
                            /\ tile.j = ((k - 1) % per) * b
                            /\ \A q \in 1..Len(tile.rows) :
                                   tile.rows[q] \in 0..(size - 1)
                            /\ tile.pixels =
                                   ClippedBox(call.result.neighborhood, size,
                                              tile.i, tile.j, b)

\* C5 (as stated): a box size whose count is 0 is recorded with log count
\* 0 (the logarithm of 1), and no data point handed to the regression has
\* a log count of minus infinity or NaN.
C5_ZeroCountIsRecordedAsZero ==
    call.op = "calculateFractalDimension" =>
        \A k \in 1..Len(call.result.data) :
            LET point == call.result.data[k]
            IN  /\ point.logBoxesCount.finite
                /\ point.boxesCount = 0 => point.logBoxesCount = MathLog(1)

\* the number of pixels of value at most t
RECURSIVE ExactCount(_, _)
ExactCount(pixels, t) ==
    IF pixels = <<>> THEN 0
    ELSE (IF Head(pixels) <= t THEN 1 ELSE 0) + ExactCount(Tail(pixels), t)

\* the sum of the pixel values that are at most last
RECURSIVE ExactIndexSum(_, _)
ExactIndexSum(pixels, last) ==
    IF pixels = <<>> THEN 0
    ELSE (IF Head(pixels) <= last THEN Head(pixels) ELSE 0)
         + ExactIndexSum(Tail(pixels), last)

\* a / b > c / d for a, c >= 0 and b, d > 0, without forming products
RECURSIVE FracGreater(_, _, _, _)
FracGreater(a, b, c, d) ==
    LET qa == a \div b
        qc == c \div d
        ra == a % b
        rc == c % d
    IN  IF qa # qc THEN qa > qc
        ELSE IF ra = 0 THEN FALSE
        ELSE IF rc = 0 THEN TRUE
        ELSE FracGreater(d, rc, b, ra)

\* the between-class variance of the claim at threshold t, times n * n, as
\* num / den: the foreground mean is taken over the values above t
OtsuClaimVariance(pixels, t) ==
    LET n == Len(pixels)
        c == ExactCount(pixels, t)
        a == ExactIndexSum(pixels, t)
        f == ExactIndexSum(pixels, HistogramSize - 1) - a
        x == a * (n - c) - f * c
    IN  IF c = 0 \/ c = n
        THEN [num |-> 0, den |-> 1]
        ELSE [num |-> x * x, den |-> c * (n - c)]

\* the lowest t in 0..255 that maximizes OtsuClaimVariance; the variance
\* changes only at a pixel value, so the lowest maximizer is 0 or a pixel
\* value
OtsuClaimThreshold(pixels) ==
    LET ts == {0} \cup {pixels[k] : k \in 1..Len(pixels)}
        V(t) == OtsuClaimVariance(pixels, t)
        best == {t \in ts : \A u \in ts :
                    ~FracGreater(V(u).num, V(u).den, V(t).num, V(t).den)}
    IN  CHOOSE t \in best : \A u \in best : t <= u

\* C6 (as stated): the threshold is the lowest t maximizing the
\* between-class variance with the foreground mean over i > t, and a cell
\* of the output is foreground exactly when its value is above it.
C6_OtsuThresholdMaximizesVariance ==
    call.op = "binarizeWithOtsu" =>
        LET t == OtsuClaimThreshold(Flatten(call.matrix))
        IN  /\ call.threshold = t
            /\ Len(call.result) = Len(call.matrix)
            /\ \A i \in 1..Len(call.matrix) :
                /\ Len(call.result[i]) = Len(call.matrix[i])
                /\ \A j \in 1..Len(call.matrix[i]) :
                    (call.result[i][j] # 0) <=> (call.matrix[i][j] > t)

IsConstantGrid(matrix) ==
    \A i \in 1..Len(matrix) : \A j \in 1..Len(matrix[i]) :
        matrix[i][j] = matrix[1][1]

\* C7 (as stated): a grid whose pixels all have the same value gets
\* threshold 0 and an all-background output.
C7_ConstantGridIsAllBackground ==
    (call.op = "binarizeWithOtsu" /\ IsConstantGrid(call.matrix)) =>
        /\ call.threshold = 0
        /\ \A i \in 1..Len(call.result) : \A j \in 1..Len(call.result[i]) :
               call.result[i][j] = 0

\* C7 (amended): a grid whose pixels all have the same value v gets
\* threshold 0, and every cell of the output is foreground (255) when
\* v > 0 and background (0) when v = 0.
C7_ConstantGridThresholdZero ==
    (call.op = "binarizeWithOtsu" /\ IsConstantGrid(call.matrix)) =>
        /\ call.threshold = 0
        /\ \A i \in 1..Len(call.result) : \A j \in 1..Len(call.result[i]) :
               call.result[i][j] =
                   IF call.matrix[1][1] > 0 THEN Foreground ELSE 0

\* C7 witness: the all-128 grid of four pixels was binarized, to foreground
C7_Witness ==
    /\ call.op = "binarizeWithOtsu"
    /\ call.matrix = Constant(2, 2, 128)
    /\ call.threshold = 0
    /\ call.result = Constant(2, 2, Foreground)

\* C8 (as stated): for a field value in [0, 2] the three channels are
\* integers in 0..255 and exactly they are written to the raster, or the
\* render fails with PaletteGap.
C8_PaletteCoversZeroToTwo ==
    call.op = "generateHeatmap" =>
        \/ call.threw = "PaletteGap"
        \/ \A c \in 1..Len(call.colors) : \A k \in 1..3 :
            /\ ~call.colors[c][k].nan
            /\ call.colors[c][k].n \in 0..255
            /\ call.image[3 * (c - 1) + k] = call.colors[c][k].n

IsCorner(imageMatrix, x, y) ==
    /\ x \in {0, Len(imageMatrix) - 1}
    /\ y \in {0, Len(imageMatrix[1]) - 1}

\* the padded cells of the neighbourhood at the centre pixel
\* (floor(h / 2), floor(w / 2)) of the grid of a call of getNeighborhood
CentrePadded ==
    PaddedCells(call.rev, call.imageMatrix, Len(call.imageMatrix) \div 2,
                Len(call.imageMatrix[1]) \div 2, call.neighborhoodSize)

\* C9 (as stated): for every grid and every N, the neighbourhood at a
\* corner has strictly more zero-padded cells than the one at the centre.
C9_CornerHasMorePadding ==
    (call.op = "getNeighborhood" /\ IsCorner(call.imageMatrix, call.x, call.y))
        => call.padded > CentrePadded

\* C9 (amended): for every grid of at least N rows and N columns and every
\* N >= 4, the neighbourhood at each corner has strictly more zero-padded
\* cells than the one at the centre pixel (floor(h / 2), floor(w / 2)); for
\* every grid and N it has at least as many.
C9_CornerHasMorePaddingOnLargeGrids ==
    (call.op = "getNeighborhood" /\ IsCorner(call.imageMatrix, call.x, call.y))
        => /\ call.padded >= CentrePadded
           /\ (/\ call.neighborhoodSize >= 4
               /\ Len(call.imageMatrix) >= call.neighborhoodSize
               /\ Len(call.imageMatrix[1]) >= call.neighborhoodSize)
              => call.padded > CentrePadded

\* C9 witness: a corner neighbourhood of side 4 of a 5 x 6 grid, padded
C9_Witness ==
    /\ call.op = "getNeighborhood"
    /\ call.neighborhoodSize = 4
    /\ Len(call.imageMatrix) = 5
    /\ Len(call.imageMatrix[1]) = 6
    /\ call.x = 4
    /\ call.y = 5
    /\ call.padded > 0

(***************************************************************************)
(* Claims about the invocations of uploadFile, checked under Spec.         *)
(***************************************************************************)
IsPrefix(s, t) == Len(s) <= Len(t) /\ s = SubSeq(t, 1, Len(s))

\* `events` once for every cell of a grid of the given height and width,
\* row by row, each event with the cell's y and x
PerCell(events, height, width) ==
    [k \in 1..(Len(events) * height * width) |->
        LET cell == (k - 1) \div Len(events)
        IN  <<events[((k - 1) % Len(events)) + 1], cell \div width,
              cell % width>>]

UploadedHeight(i) == Len(file[i].data) \div file[i].width

\* the order the claim states: the grid is built, normalized to S x S and
\* binarized, then each cell gets its neighbourhood and its estimate, then
\* the heat map is rendered and the response returned
ClaimedLog ==
    <<<<"toPixelMatrix">>, <<"squareMatrix">>, <<"binarizeWithOtsu">>>>
    \o PerCell(<<"getNeighborhood", "boxCounting">>,
               STANDARDIZED_IMAGE_SIZE, STANDARDIZED_IMAGE_SIZE)
    \o <<<<"generateHeatmap">>, <<"return">>>>

\* C10 (as stated): in every invocation the stages run in the order Grid
\* Builder, Grid Normalizer, Binarizer, Field Builder (extractor then
\* estimator, once per pixel of the S x S grid), Heatmap Renderer, and the
\* response is returned only after the renderer has produced the heat map.
C10_StagesRunInTheClaimedOrder ==
    \A i \in Invocations :
        /\ IsPrefix(log[i], ClaimedLog)
        /\ pc[i] = "returned" => log[i] = ClaimedLog
        /\ response[i] # None => image[i] # None

\* the order of the source: revision 2 normalizes and never binarizes,
\* revision 1 does not normalize and binarizes each neighbourhood between
\* its extraction and its box counting
SourceLog(i) ==
    IF service.rev = 2
    THEN <<<<"toPixelMatrix">>, <<"squareMatrix">>>>
         \o PerCell(<<"getNeighborhood", "boxCounting">>,
                    STANDARDIZED_IMAGE_SIZE, STANDARDIZED_IMAGE_SIZE)
         \o <<<<"generateHeatmap">>, <<"return">>>>
    ELSE <<<<"toPixelMatrix">>>>
         \o PerCell(<<"getNeighborhood", "binarizeWithOtsu", "boxCounting">>,
                    UploadedHeight(i), file[i].width)
         \o <<<<"generateHeatmap">>, <<"return">>>>

\* what uploadFile does instead: the methods of an invocation run in the
\* order of SourceLog up to the first throw, and a response is returned only
\* by revision 1, after the whole of SourceLog
StagesRunInTheSourceOrder ==
    \A i \in Invocations :
        /\ IsPrefix(log[i], SourceLog(i))
        /\ pc[i] = "returned" =>
              (log[i] = SourceLog(i) /\ image[i] # None /\ response[i] # None)
        /\ response[i] # None => (pc[i] = "returned" /\ service.rev = 1)

\* between two awaits an invocation runs alone
OneInvocationRunsAtATime ==
    \A i, j \in Invocations :
        (pc[i] \in Synchronous /\ pc[j] \in Synchronous) => i = j

\* the raster of an invocation is built while its encoding is pending
RasterBuiltWhileEncoding ==
    \A i \in Invocations : pc[i] = "toFile" => image[i] # None

\* two invocations await their encodings at once
TwoEncodingsPending ==
    \E i, j \in Invocations : i # j /\ pc[i] = "toFile" /\ pc[j] = "toFile"

====
